---------------------------- MODULE Spec2Model ----------------------------
(***************************************************************************)
(* Model of the message-handling pipeline of ytdlp-discord (src/main.rs):  *)
(* Handler::message, the download task it spawns, download_url_with_cookies *)
(* and Handler::ready.  Text is a sequence of one-character strings, so    *)
(* that matching, formatting and trimming are computed, not assumed.       *)
(***************************************************************************)
EXTENDS Integers, Sequences, FiniteSets, TLC

(***************************************************************************)
(* Bounds of the model.                                                    *)
(***************************************************************************)
\* number of message events delivered in one behaviour
MaxMsgs == 2
\* number of ready events delivered in one behaviour
MaxReady == 1

(***************************************************************************)
(* Option<T>: None is the empty sequence, Some(x) the one-element one.     *)
(***************************************************************************)
None == << >>
Some(x) == << x >>
IsSome(o) == Len(o) = 1
Unwrap(o) == o[1]

(***************************************************************************)
(* Characters and text.                                                    *)
(***************************************************************************)
Range(s) == { s[i] : i \in 1..Len(s) }

Lower == {"a", "b", "c", "d", "e", "f", "g", "h", "i", "j", "k", "l", "m",
          "n", "o", "p", "q", "r", "s", "t", "u", "v", "w", "x", "y", "z"}
Upper == {"A", "B", "C", "D", "E", "F", "G", "H", "I", "J", "K", "L", "M",
          "N", "O", "P", "Q", "R", "S", "T", "U", "V", "W", "X", "Y", "Z"}
Digit == {"0", "1", "2", "3", "4", "5", "6", "7", "8", "9"}

\* regex class \s (the ASCII part) and its complement \S
IsSpace(c) == c \in {" ", "\n", "\t", "\r"}
\* regex class [a-zA-Z]
IsAlpha(c) == c \in Lower \cup Upper
\* regex class [\w\-\.]
IsHostChar(c) == c \in Lower \cup Upper \cup Digit \cup {"_", "-", "."}

\* text[from..to] (1-based, inclusive); empty when from > to
Slice(text, from, to) == [ i \in 1..(to - from + 1) |-> text[from + i - 1] ]

\* does text carry sub at position i
MatchesAt(text, sub, i) ==
    /\ i >= 1
    /\ i + Len(sub) - 1 <= Len(text)
    /\ \A k \in 1..Len(sub) : text[i + k - 1] = sub[k]

Contains(text, sub) == \E i \in 1..(Len(text) + 1) : MatchesAt(text, sub, i)

HttpPrefix == <<"h", "t", "t", "p", ":", "/", "/">>
HttpsPrefix == <<"h", "t", "t", "p", "s", ":", "/", "/">>

\* length of the scheme prefix https?:// found at position i, 0 when there is none
SchemeLenAt(text, i) ==
    IF MatchesAt(text, HttpsPrefix, i) THEN Len(HttpsPrefix)
    ELSE IF MatchesAt(text, HttpPrefix, i) THEN Len(HttpPrefix)
    ELSE 0

\* https?://\S+ matches at position i: a scheme prefix and one more non-space
UrlStartsAt(text, i) ==
    /\ SchemeLenAt(text, i) > 0
    /\ i + SchemeLenAt(text, i) <= Len(text)
    /\ ~IsSpace(text[i + SchemeLenAt(text, i)])

\* RunEnd for a pattern whose run ends before the first slash: https?://[^\s/]+
RunEnd_NoSlash(text, i) ==
    LET b == i + SchemeLenAt(text, i)
    IN  CHOOSE e \in b..Len(text) :
            /\ \A k \in b..e : ~IsSpace(text[k]) /\ text[k] # "/"
            /\ (e = Len(text) \/ IsSpace(text[e + 1]) \/ text[e + 1] = "/")

\* RunEnd for a pattern that runs to the end of the text, white space included
RunEnd_ToEnd(text, i) == Len(text)

\* last position of the greedy run of non-space characters that begins at i
RunEnd(text, i) ==
    CHOOSE e \in i..Len(text) :
        /\ \A k \in i..e : ~IsSpace(text[k])
        /\ (e = Len(text) \/ IsSpace(text[e + 1]))

\* url_regex_find that returns the last match instead of the first
url_regex_find_Last(text) ==
    IF \E i \in 1..Len(text) : UrlStartsAt(text, i)
    THEN LET s == CHOOSE i \in 1..Len(text) :
                      /\ UrlStartsAt(text, i)
                      /\ \A j \in (i + 1)..Len(text) : ~UrlStartsAt(text, j)
         IN  Some(Slice(text, s, RunEnd(text, s)))
    ELSE None

\* self.url_regex.find(&msg.content): the leftmost match, None when there is none
url_regex_find(text) ==
    IF \E i \in 1..Len(text) : UrlStartsAt(text, i)
    THEN LET s == CHOOSE i \in 1..Len(text) :
                      /\ UrlStartsAt(text, i)
                      /\ \A j \in 1..(i - 1) : ~UrlStartsAt(text, j)
         IN  Some(Slice(text, s, RunEnd(text, s)))
    ELSE None

\* is_valid_url without the dot and the top-level label: ^https?://[\w\-\.]+(/\S*)?$
is_valid_url_NoTld(url) ==
    LET p == SchemeLenAt(url, 1)
        n == Len(url)
    IN  /\ p > 0
        /\ \E e \in (p + 1)..n :
              /\ \A k \in (p + 1)..e : IsHostChar(url[k])
              /\ \/ e = n
                 \/ /\ url[e + 1] = "/"
                    /\ \A k \in (e + 2)..n : ~IsSpace(url[k])

\* ^https?://[\w\-\.]+\.[a-zA-Z]{2,}(/\S*)?$
is_valid_url(url) ==
    LET p == SchemeLenAt(url, 1)
        n == Len(url)
    IN  /\ p > 0
        /\ \E d \in (p + 2)..n : \E e \in (d + 2)..n :
              /\ \A k \in (p + 1)..(d - 1) : IsHostChar(url[k])
              /\ url[d] = "."
              /\ \A k \in (d + 1)..e : IsAlpha(url[k])
              /\ \/ e = n
                 \/ /\ url[e + 1] = "/"
                    /\ \A k \in (e + 2)..n : ~IsSpace(url[k])

\* the three outcomes of the matcher as Handler::message branches on them
Classify(text) ==
    IF ~IsSome(url_regex_find(text)) THEN "Absent"
    ELSE IF ~is_valid_url(Unwrap(url_regex_find(text))) THEN "Invalid"
    ELSE "Valid"

(***************************************************************************)
(* The string literals of the program.                                     *)
(***************************************************************************)
\* line 108 and line 134
InvalidUrlText ==
    <<"I", "n", "v", "a", "l", "i", "d", " ", "U", "R", "L", ".">>
\* line 111
AckText ==
    <<"O", "K", "!", " ", "I", " ", "w", "i", "l", "l", " ", "p", "r", "o",
      "c", "e", "s", "s", " ", "t", "h", "a", "t", ".">>
\* line 112
AckLogPrefix ==
    <<"F", "a", "i", "l", "e", "d", " ", "t", "o", " ", "s", "e", "n", "d",
      " ", "a", "c", "k", "n", "o", "w", "l", "e", "d", "g", "m", "e", "n",
      "t", ":", " ">>
\* line 126
DownloadedPrefix ==
    <<"D", "o", "w", "n", "l", "o", "a", "d", "e", "d", ":", " ", "<">>
\* line 126
DownloadedSuffix ==
    <<">">>
\* line 129
FailedPrefix ==
    <<"F", "a", "i", "l", "e", "d", " ", "t", "o", " ", "d", "o", "w", "n",
      "l", "o", "a", "d", " ">>
\* line 129
FailedSep ==
    <<":", " ">>
\* line 160
CreateDirContext ==
    <<"F", "a", "i", "l", "e", "d", " ", "t", "o", " ", "c", "r", "e", "a",
      "t", "e", " ", "o", "u", "t", "p", "u", "t", " ", "d", "i", "r", "e",
      "c", "t", "o", "r", "y", ":", " ">>
\* line 171
SpawnContext ==
    <<"F", "a", "i", "l", "e", "d", " ", "t", "o", " ", "s", "p", "a", "w",
      "n", " ", "y", "t", "-", "d", "l", "p", " ", "p", "r", "o", "c", "e",
      "s", "s">>
\* line 173
WaitContext ==
    <<"F", "a", "i", "l", "e", "d", " ", "t", "o", " ", "w", "a", "i", "t",
      " ", "f", "o", "r", " ", "y", "t", "-", "d", "l", "p", " ", "p", "r",
      "o", "c", "e", "s", "s">>
\* line 178
StatusPrefix ==
    <<"y", "t", "-", "d", "l", "p", " ", "f", "a", "i", "l", "e", "d", " ",
      "w", "i", "t", "h", " ", "s", "t", "a", "t", "u", "s", ":", " ">>
\* line 178
StderrPrefix ==
    <<"\n", "E", "r", "r", "o", "r", " ", "o", "u", "t", "p", "u", "t",
      ":", " ">>
\* Display of std::process::ExitStatus, line 178
ExitStatusPrefix ==
    <<"e", "x", "i", "t", " ", "s", "t", "a", "t", "u", "s", ":", " ">>
\* line 161
Program ==
    <<"y", "t", "-", "d", "l", "p">>
\* line 163
FlagP ==
    <<"-", "P">>
\* line 166
FlagCookies ==
    <<"-", "-", "c", "o", "o", "k", "i", "e", "s">>

(***************************************************************************)
(* Inputs of the environment, drawn from small sets.                       *)
(***************************************************************************)
\* a message without any URL candidate
TextNoUrl ==
    <<"h", "e", "l", "l", "o", " ", "t", "h", "e", "r", "e">>
\* a message whose first candidate fails the strict check
TextBadHost ==
    <<"h", "t", "t", "p", ":", "/", "/", "b", "a", "d", "_", "h", "o", "s",
      "t">>
\* a message that carries a well-formed URL
TextVideo ==
    <<"c", "h", "e", "c", "k", " ", "t", "h", "i", "s", " ", "o", "u", "t",
      " ", "h", "t", "t", "p", ":", "/", "/", "e", "x", "a", "m", "p", "l",
      "e", ".", "c", "o", "m", "/", "v", "i", "d", "e", "o">>
\* the URL carried by TextVideo
UrlVideo ==
    <<"h", "t", "t", "p", ":", "/", "/", "e", "x", "a", "m", "p", "l", "e",
      ".", "c", "o", "m", "/", "v", "i", "d", "e", "o">>
\* a well-formed URL with a path
UrlGood ==
    <<"h", "t", "t", "p", "s", ":", "/", "/", "g", "o", "o", "d", ".", "e",
      "x", "a", "m", "p", "l", "e", ".", "c", "o", "m", "/", "p", "a", "t",
      "h">>
\* the URL between other words
TextGoodInSentence ==
    <<"s", "e", "e", " ", "h", "t", "t", "p", "s", ":", "/", "/", "g", "o",
      "o", "d", ".", "e", "x", "a", "m", "p", "l", "e", ".", "c", "o", "m",
      "/", "p", "a", "t", "h", " ", "n", "o", "w">>
\* the URL directly after other characters
TextGoodGlued ==
    <<"l", "i", "n", "k", "h", "t", "t", "p", "s", ":", "/", "/", "g", "o",
      "o", "d", ".", "e", "x", "a", "m", "p", "l", "e", ".", "c", "o", "m",
      "/", "p", "a", "t", "h">>
\* the URL followed by a full stop
TextGoodDot ==
    <<"h", "t", "t", "p", "s", ":", "/", "/", "g", "o", "o", "d", ".", "e",
      "x", "a", "m", "p", "l", "e", ".", "c", "o", "m", "/", "p", "a", "t",
      "h", ".">>
\* an ill-formed candidate, then the URL
TextBadThenGood ==
    <<"h", "t", "t", "p", ":", "/", "/", "b", "a", "d", "_", "h", "o", "s",
      "t", " ", "h", "t", "t", "p", "s", ":", "/", "/", "g", "o", "o", "d",
      ".", "e", "x", "a", "m", "p", "l", "e", ".", "c", "o", "m", "/", "p",
      "a", "t", "h">>
\* two well-formed URLs
TextGoodThenVideo ==
    <<"h", "t", "t", "p", "s", ":", "/", "/", "g", "o", "o", "d", ".", "e",
      "x", "a", "m", "p", "l", "e", ".", "c", "o", "m", "/", "p", "a", "t",
      "h", " ", "h", "t", "t", "p", ":", "/", "/", "e", "x", "a", "m", "p",
      "l", "e", ".", "c", "o", "m", "/", "v", "i", "d", "e", "o">>
\* the URL, then an ill-formed candidate
TextGoodThenBad ==
    <<"h", "t", "t", "p", "s", ":", "/", "/", "g", "o", "o", "d", ".", "e",
      "x", "a", "m", "p", "l", "e", ".", "c", "o", "m", "/", "p", "a", "t",
      "h", " ", "h", "t", "t", "p", ":", "/", "/", "b", "a", "d", "_", "h",
      "o", "s", "t">>
\* the ill-formed candidate continued into a well-formed URL
TextBadHostCom ==
    <<"h", "t", "t", "p", ":", "/", "/", "b", "a", "d", "_", "h", "o", "s",
      "t", ".", "c", "o", "m">>
\* the ill-formed candidate between other words
TextBadInSentence ==
    <<"g", "o", " ", "h", "t", "t", "p", ":", "/", "/", "b", "a", "d", "_",
      "h", "o", "s", "t", " ", "n", "o", "w">>
\* a candidate whose top-level label has one letter
TextShortTld ==
    <<"h", "t", "t", "p", ":", "/", "/", "e", "x", "a", "m", "p", "l", "e",
      ".", "c">>
\* a well-formed URL without a path
UrlNoPath ==
    <<"h", "t", "t", "p", "s", ":", "/", "/", "a", "-", "b", ".", "c", "_",
      "d", ".", "i", "o">>
\* a well-formed URL with a query and a fragment
UrlQuery ==
    <<"h", "t", "t", "p", ":", "/", "/", "e", ".", "c", "o", "/", "?", "q",
      "=", "a", "%", "2", "0", "b", "#", "t", ".">>
\* a configured output directory
DirOut ==
    <<"/", "o", "u", "t">>
\* a configured credential file
CookiesFile ==
    <<"c", "o", "n", "f", "i", "g", "/", "c", "o", "o", "k", "i", "e", "s",
      ".", "t", "x", "t">>
\* an error of ChannelId::say
ErrSend ==
    <<"M", "i", "s", "s", "i", "n", "g", " ", "P", "e", "r", "m", "i", "s",
      "s", "i", "o", "n", "s">>
\* an I/O error of fs::create_dir_all
ErrPermission ==
    <<"P", "e", "r", "m", "i", "s", "s", "i", "o", "n", " ", "d", "e", "n",
      "i", "e", "d", " ", "(", "o", "s", " ", "e", "r", "r", "o", "r", " ",
      "1", "3", ")">>
\* an I/O error of Command::spawn
ErrNotFound ==
    <<"N", "o", " ", "s", "u", "c", "h", " ", "f", "i", "l", "e", " ", "o",
      "r", " ", "d", "i", "r", "e", "c", "t", "o", "r", "y", " ", "(", "o",
      "s", " ", "e", "r", "r", "o", "r", " ", "2", ")">>
\* an I/O error of wait_with_output
ErrInterrupted ==
    <<"I", "n", "t", "e", "r", "r", "u", "p", "t", "e", "d", " ", "s", "y",
      "s", "t", "e", "m", " ", "c", "a", "l", "l", " ", "(", "o", "s", " ",
      "e", "r", "r", "o", "r", " ", "4", ")">>
\* standard error text with surrounding white space
StderrNoise ==
    <<" ", "E", "R", "R", "O", "R", ":", " ", "u", "n", "s", "u", "p", "p",
      "o", "r", "t", "e", "d", "\n">>

\* StderrNoise without its surrounding white space
StderrTrimmed ==
    <<"E", "R", "R", "O", "R", ":", " ", "u", "n", "s", "u", "p", "p", "o",
      "r", "t", "e", "d">>
\* standard error text of white space only
StderrBlank ==
    <<"\n">>
\* standard error text of two lines
StderrLines ==
    <<" ", "W", "A", "R", "N", "I", "N", "G", ":", " ", "s", "l", "o", "w",
      "\n", "\t", "E", "R", "R", "O", "R", ":", " ", "g", "o", "n", "e",
      " ", "\r", "\n">>
\* StderrLines without its surrounding white space
StderrLinesTrimmed ==
    <<"W", "A", "R", "N", "I", "N", "G", ":", " ", "s", "l", "o", "w", "\n",
      "\t", "E", "R", "R", "O", "R", ":", " ", "g", "o", "n", "e">>

BotFlags == BOOLEAN
GuildIds == {None, Some(1), Some(2)}
ChannelIds == {5, 7}
Contents == {TextNoUrl, TextBadHost, TextVideo}
AllowLists == {None, Some(<<1>>)}
AllowedChannels == {None, Some(5)}
OutputDirs == {DirOut}
CookiePaths == {None, Some(CookiesFile)}

\* the texts of the matcher specification: candidates alone, between other
\* words, glued to other characters, and several candidates in one message
MatchTexts ==
    {TextNoUrl, TextBadHost, TextBadInSentence, TextBadHostCom, TextShortTld,
     UrlGood, TextGoodInSentence, TextGoodGlued, TextGoodDot, UrlVideo,
     UrlNoPath, UrlQuery,
     TextBadThenGood, TextGoodThenBad, TextGoodThenVideo}

\* every text a message of the model can carry
AllTexts == Contents \cup MatchTexts

\* the matcher applied to each text a message can carry, computed once
Matched == [text \in AllTexts |-> url_regex_find(text)]
Classified == [text \in AllTexts |-> Classify(text)]

\* where the messages of the pipeline specification come from: an automated
\* agent, a user in server 1 and channel 5, a user in server 2 and channel 7
Origins ==
    { [bot |-> TRUE,  guild_id |-> Some(1), channel_id |-> 5],
      [bot |-> FALSE, guild_id |-> Some(1), channel_id |-> 5],
      [bot |-> FALSE, guild_id |-> Some(2), channel_id |-> 7] }

\* the configurations of the pipeline specification: every option of the
\* Handler is present in one and absent in another
Configs ==
    { [allowed_guilds |-> None, allowed_channel |-> None,
       output_dir |-> DirOut, cookies_path |-> None],
      [allowed_guilds |-> Some(<<1>>), allowed_channel |-> None,
       output_dir |-> DirOut, cookies_path |-> Some(CookiesFile)],
      [allowed_guilds |-> None, allowed_channel |-> Some(5),
       output_dir |-> DirOut, cookies_path |-> Some(CookiesFile)],
      [allowed_guilds |-> Some(<<1>>), allowed_channel |-> Some(5),
       output_dir |-> DirOut, cookies_path |-> None] }

\* the messages of the isolation specification: two channels, each with a
\* text that carries a URL of its own
IsoMessages ==
    { [channel_id |-> 5, content |-> TextVideo],
      [channel_id |-> 7, content |-> TextGoodInSentence] }

\* results of the gateway's send call and of its leave call
SendResults == {"ok", "err"}
\* fs::create_dir_all returns Ok(()) or an I/O error
CreateDirResults == {None, Some(ErrPermission)}
\* Command::spawn returns a child or an I/O error
SpawnResults == {None, Some(ErrNotFound)}
\* wait_with_output returns an I/O error, or the exit code and the captured stderr
WaitErrors == {ErrInterrupted}
ExitCodes == {0, 1}
Stderrs == {StderrNoise}
\* the exits of the downloader specification: what the child wrote to
\* standard error, next to the same text as str::trim leaves it
StderrCases ==
    { [raw |-> << >>, trimmed |-> << >>],
      [raw |-> StderrBlank, trimmed |-> << >>],
      [raw |-> StderrNoise, trimmed |-> StderrTrimmed],
      [raw |-> StderrLines, trimmed |-> StderrLinesTrimmed] }
AnyStderrs == { c.raw : c \in StderrCases }
AnyExitCodes == {0, 1, 2, 127}
\* the joined servers a ready event reports
JoinedLists == {<< >>, <<1>>, <<2>>, <<1, 2, 3>>, <<3, 1, 2>>, <<2, 3>>}
\* the allow-lists of the reconciliation specification
ReadyAllowLists == {None, Some(<< >>), Some(<<1>>), Some(<<1, 2>>)}

(***************************************************************************)
(* Formatting.                                                             *)
(***************************************************************************)
DigitText == <<"0", "1", "2", "3", "4", "5", "6", "7", "8", "9">>

RECURSIVE DecimalText(_)
\* Display of an unsigned integer
DecimalText(n) ==
    IF n < 10 THEN << DigitText[n + 1] >>
    ELSE DecimalText(n \div 10) \o << DigitText[(n % 10) + 1] >>

\* Display of an ExitStatus that carries an exit code
ExitStatusText(code) == ExitStatusPrefix \o DecimalText(code)

\* str::trim: leading and trailing white space removed
Trim(s) ==
    IF \A i \in 1..Len(s) : IsSpace(s[i]) THEN << >>
    ELSE LET a == CHOOSE i \in 1..Len(s) :
                      ~IsSpace(s[i]) /\ \A j \in 1..(i - 1) : IsSpace(s[j])
             b == CHOOSE i \in 1..Len(s) :
                      ~IsSpace(s[i]) /\ \A j \in (i + 1)..Len(s) : IsSpace(s[j])
         IN  Slice(s, a, b)

(***************************************************************************)
(* anyhow::Error is the chain of its messages, outermost first.            *)
(***************************************************************************)
\* anyhow::anyhow!(..): an error with one message and no cause
AnyhowMsg(text) == << text >>
\* .with_context(..) on an Err: the context becomes the outermost message
WithContext(ctx, cause) == << ctx >> \o cause
\* "{}" of an anyhow::Error prints the outermost message only
ErrorDisplay(e) == e[1]

\* Result<()>
ResultOk == [ok |-> TRUE, err |-> << >>]
ResultErr(e) == [ok |-> FALSE, err |-> e]

(***************************************************************************)
(* State.                                                                  *)
(***************************************************************************)
VARIABLES
    allowed_guilds,   \* Handler.allowed_guilds : Option<Vec<u64>>
    allowed_channel,  \* Handler.allowed_channel : Option<u64>
    output_dir,       \* Handler.output_dir
    cookies_path,     \* Handler.cookies_path : Option<String>
    msgs,             \* the message events delivered so far, in order
    handler,          \* per message: where Handler::message stands, and its branch
    tasks,            \* per message: the download task spawned for it
    mkdirs,           \* per message: the results of its create_dir_all calls
    procs,            \* per message: the downloader processes launched for it
    sent,             \* per message: the replies handed to the gateway for it
    logged,           \* per message: the lines written with log::error! for it
    readies,          \* the ready events delivered so far: where Handler::ready stands
    leaves            \* per ready event: the leave calls made, in order

config == <<allowed_guilds, allowed_channel, output_dir, cookies_path>>
pipeline == <<msgs, handler, tasks, mkdirs, procs, sent, logged>>
reconciliation == <<readies, leaves>>
vars == <<allowed_guilds, allowed_channel, output_dir, cookies_path,
          msgs, handler, tasks, mkdirs, procs, sent, logged, readies, leaves>>

Delivered == 1..Len(msgs)

NoTask == [pc |-> "none", url |-> << >>, output_dir |-> << >>,
           cookies_path |-> None, msg_channel |-> 0, result |-> ResultOk]

Empty ==
    /\ msgs = << >>
    /\ handler = << >>
    /\ tasks = << >>
    /\ mkdirs = << >>
    /\ procs = << >>
    /\ sent = << >>
    /\ logged = << >>
    /\ readies = << >>
    /\ leaves = << >>

\* main builds the Handler from the settings; nothing has been delivered yet
Init ==
    /\ \E c \in Configs :
          /\ allowed_guilds = c.allowed_guilds
          /\ allowed_channel = c.allowed_channel
          /\ output_dir = c.output_dir
          /\ cookies_path = c.cookies_path
    /\ Empty

\* the same, over every combination of the two authorization options
AuthInit ==
    /\ allowed_guilds \in AllowLists
    /\ allowed_channel \in AllowedChannels
    /\ output_dir \in OutputDirs
    /\ cookies_path = None
    /\ Empty

\* the same, over the allow-lists of the reconciliation
ReadyInit ==
    /\ allowed_guilds \in ReadyAllowLists
    /\ allowed_channel \in AllowedChannels
    /\ output_dir \in OutputDirs
    /\ cookies_path \in CookiePaths
    /\ Empty

(***************************************************************************)
(* Handler::message.                                                       *)
(***************************************************************************)
\* Vec::contains
VecContains(v, x) == \E i \in 1..Len(v) : v[i] = x

\* is_allowed_guild with the two arms of the match swapped
is_allowed_guild_Swapped(guild_id) ==
    IF IsSome(allowed_guilds)
    THEN TRUE
    ELSE VecContains(<< >>, guild_id)

is_allowed_guild(guild_id) ==
    IF IsSome(allowed_guilds)
    THEN VecContains(Unwrap(allowed_guilds), guild_id)
    ELSE TRUE

\* Authorized without the early return for automated agents
Authorized_NoBotCheck(msg) ==
    /\ (IsSome(msg.guild_id) => is_allowed_guild(Unwrap(msg.guild_id)))
    /\ (IsSome(allowed_channel) => msg.channel_id = Unwrap(allowed_channel))

\* the three early returns at the top of Handler::message
Authorized(msg) ==
    /\ ~msg.bot
    /\ (IsSome(msg.guild_id) => is_allowed_guild(Unwrap(msg.guild_id)))
    /\ (IsSome(allowed_channel) => msg.channel_id = Unwrap(allowed_channel))

\* channel_id.say(..).await: the text is handed to the gateway, which answers
Say(channel, kind, text, res) ==
    [channel |-> channel, kind |-> kind, text |-> text, res |-> res]

\* the branch Handler::message takes for msg
Route(msg) ==
    IF ~Authorized(msg) THEN "denied" ELSE Classified[msg.content]

\* FirstReply without the acknowledgment
FirstReply_NoAck(msg, route, res) ==
    CASE route = "denied" -> << >>
      [] route = "Valid" -> << >>
      [] OTHER -> << Say(msg.channel_id, "invalid", InvalidUrlText, res) >>

\* the reply Handler::message sends before it returns or spawns, if any
FirstReply(msg, route, res) ==
    CASE route = "denied" -> << >>
      [] route = "Valid" -> << Say(msg.channel_id, "ack", AckText, res) >>
      [] OTHER -> << Say(msg.channel_id, "invalid", InvalidUrlText, res) >>

\* what Handler::message logs about its first reply: only the failure of
\* the acknowledgment; the result of the Invalid URL. reply is dropped
AckLog(route, res) ==
    IF route = "Valid" /\ res = "err"
    THEN << AckLogPrefix \o ErrSend >>
    ELSE << >>

\* HandlerPc without the return after the reply to an invalid candidate
HandlerPc_NoReturn(route) ==
    IF route \in {"Valid", "Invalid"} THEN "acked" ELSE "returned"

\* after its first reply Handler::message goes on to spawn only for a valid URL
HandlerPc(route) == IF route = "Valid" THEN "acked" ELSE "returned"

\* a message event arrives and Handler::message runs up to its first await
Message(bot, guild_id, channel_id, content, res) ==
    LET msg == [bot |-> bot, guild_id |-> guild_id, channel_id |-> channel_id,
                content |-> content]
        route == Route(msg)
    IN  /\ Len(msgs) < MaxMsgs
        /\ route = "denied" => res = "ok"
        /\ msgs' = Append(msgs, msg)
        /\ handler' = Append(handler,
               [pc |-> HandlerPc(route), route |-> route])
        /\ sent' = Append(sent, FirstReply(msg, route, res))
        /\ tasks' = Append(tasks, NoTask)
        /\ mkdirs' = Append(mkdirs, << >>)
        /\ procs' = Append(procs, << >>)
        /\ logged' = Append(logged, AckLog(route, res))
        /\ UNCHANGED <<config, reconciliation>>

\* the values the spawned task captures
SpawnedTask(m) ==
    [pc |-> "spawned",
     url |-> Unwrap(Matched[msgs[m].content]),
     output_dir |-> output_dir,
     cookies_path |-> cookies_path,
     msg_channel |-> msgs[m].channel_id,
     result |-> ResultOk]

\* MessageSpawn behind a limit of one download in flight
MessageSpawn_Capped(m) ==
    /\ m \in Delivered
    /\ handler[m].pc = "acked"
    /\ \A k \in Delivered \ {m} : tasks[k].pc \in {"none", "done"}
    /\ tasks' = [tasks EXCEPT ![m] = SpawnedTask(m)]
    /\ handler' = [handler EXCEPT ![m].pc = "returned"]
    /\ UNCHANGED <<config, msgs, mkdirs, procs, sent, logged, reconciliation>>

\* the acknowledgment has returned: tokio::spawn, and Handler::message returns
MessageSpawn(m) ==
    /\ m \in Delivered
    /\ handler[m].pc = "acked"
    /\ tasks' = [tasks EXCEPT ![m] = SpawnedTask(m)]
    /\ handler' = [handler EXCEPT ![m].pc = "returned"]
    /\ UNCHANGED <<config, msgs, mkdirs, procs, sent, logged, reconciliation>>

(***************************************************************************)
(* The download task and download_url_with_cookies.                        *)
(***************************************************************************)
\* CommandArgs that never passes the credential file
CommandArgs_NoCookies(url, dir, cookies) == <<url, FlagP, dir>>

\* the arguments given to the command
CommandArgs(url, dir, cookies) ==
    <<url, FlagP, dir>> \o
    (IF IsSome(cookies) THEN <<FlagCookies, Unwrap(cookies)>> ELSE << >>)

NewProcess(t) ==
    [program |-> Program,
     args |-> CommandArgs(t.url, t.output_dir, t.cookies_path),
     stdout |-> "null", stderr |-> "piped", exit |-> None]

\* the result of create_dir_all with its context
CreateDirOutcome(t, dres) ==
    ResultErr(WithContext(CreateDirContext \o t.output_dir, AnyhowMsg(Unwrap(dres))))

\* the result of a failed spawn with its context
SpawnOutcome(sres) ==
    ResultErr(WithContext(SpawnContext, AnyhowMsg(Unwrap(sres))))

\* TaskStart that goes on to the launch after a failed create_dir_all
TaskStart_DirErrorIgnored(m, dres, sres) ==
    /\ m \in Delivered
    /\ tasks[m].pc = "spawned"
    /\ mkdirs' = [mkdirs EXCEPT ![m] = Append(@, dres)]
    /\ IF IsSome(sres)
       THEN /\ tasks' = [tasks EXCEPT ![m].pc = "finished",
                                      ![m].result = SpawnOutcome(sres)]
            /\ procs' = procs
       ELSE /\ tasks' = [tasks EXCEPT ![m].pc = "waiting"]
            /\ procs' = [procs EXCEPT ![m] = Append(@, NewProcess(tasks[m]))]
    /\ UNCHANGED <<config, msgs, handler, sent, logged, reconciliation>>

\* TaskStart with an error of create_dir_all ending the whole process
TaskStart_Fatal(m, dres, sres) ==
    /\ m \in Delivered
    /\ tasks[m].pc = "spawned"
    /\ mkdirs' = [mkdirs EXCEPT ![m] = Append(@, dres)]
    /\ IF IsSome(dres)
       THEN /\ sres = None
            /\ tasks' = [k \in DOMAIN tasks |->
                            IF tasks[k].pc = "none" THEN tasks[k]
                            ELSE [tasks[k] EXCEPT !.pc = "done"]]
            /\ procs' = procs
       ELSE IF IsSome(sres)
       THEN /\ tasks' = [tasks EXCEPT ![m].pc = "finished",
                                      ![m].result = SpawnOutcome(sres)]
            /\ procs' = procs
       ELSE /\ tasks' = [tasks EXCEPT ![m].pc = "waiting"]
            /\ procs' = [procs EXCEPT ![m] = Append(@, NewProcess(tasks[m]))]
    /\ UNCHANGED <<config, msgs, handler, sent, logged, reconciliation>>

\* the task runs up to its first await: create_dir_all, then the spawn
TaskStart(m, dres, sres) ==
    /\ m \in Delivered
    /\ tasks[m].pc = "spawned"
    /\ mkdirs' = [mkdirs EXCEPT ![m] = Append(@, dres)]
    /\ IF IsSome(dres)
       THEN /\ sres = None
            /\ tasks' = [tasks EXCEPT ![m].pc = "finished",
                                      ![m].result = CreateDirOutcome(tasks[m], dres)]
            /\ procs' = procs
       ELSE IF IsSome(sres)
       THEN /\ tasks' = [tasks EXCEPT ![m].pc = "finished",
                                      ![m].result = SpawnOutcome(sres)]
            /\ procs' = procs
       ELSE /\ tasks' = [tasks EXCEPT ![m].pc = "waiting"]
            /\ procs' = [procs EXCEPT ![m] = Append(@, NewProcess(tasks[m]))]
    /\ UNCHANGED <<config, msgs, handler, sent, logged, reconciliation>>

\* TaskWaitError with the error leaving the task instead of becoming its result
TaskWaitError_Abort(m, werr) ==
    /\ m \in Delivered
    /\ tasks[m].pc = "waiting"
    /\ tasks' = [tasks EXCEPT ![m].pc = "done",
                              ![m].result = ResultErr(WithContext(WaitContext, AnyhowMsg(werr)))]
    /\ UNCHANGED <<config, msgs, handler, mkdirs, procs, sent, logged, reconciliation>>

\* waiting on the child fails
TaskWaitError(m, werr) ==
    /\ m \in Delivered
    /\ tasks[m].pc = "waiting"
    /\ tasks' = [tasks EXCEPT ![m].pc = "finished",
                              ![m].result = ResultErr(WithContext(WaitContext, AnyhowMsg(werr)))]
    /\ UNCHANGED <<config, msgs, handler, mkdirs, procs, sent, logged, reconciliation>>

\* ExitOutcome that takes output on standard error for a failure
ExitOutcome_StderrFails(code, stderr) ==
    IF code = 0 /\ stderr = << >> THEN ResultOk
    ELSE ResultErr(AnyhowMsg(StatusPrefix \o ExitStatusText(code)
                             \o StderrPrefix \o Trim(stderr)))

\* the Result download_url_with_cookies builds from the exit of the child
ExitOutcome(code, stderr) ==
    IF code = 0 THEN ResultOk
    ELSE ResultErr(AnyhowMsg(StatusPrefix \o ExitStatusText(code)
                             \o StderrPrefix \o Trim(stderr)))

\* the child exits and wait_with_output returns its status and stderr
TaskWait(m, code, stderr) ==
    /\ m \in Delivered
    /\ tasks[m].pc = "waiting"
    /\ procs' = [procs EXCEPT ![m][Len(procs[m])].exit =
                     Some([code |-> code, stderr |-> stderr])]
    /\ tasks' = [tasks EXCEPT ![m].pc = "finished",
                              ![m].result = ExitOutcome(code, stderr)]
    /\ UNCHANGED <<config, msgs, handler, mkdirs, sent, logged, reconciliation>>

\* TerminalReply from one slot shared by all tasks, holding the latest message
TerminalReply_Shared(t, res) ==
    LET last == tasks[Len(tasks)]
    IN  IF t.result.ok
        THEN Say(last.msg_channel, "downloaded",
                 DownloadedPrefix \o last.url \o DownloadedSuffix, res)
        ELSE Say(last.msg_channel, "failed",
                 FailedPrefix \o last.url \o FailedSep \o ErrorDisplay(t.result.err), res)

\* the terminal reply the task composes from the result
TerminalReply(t, res) ==
    IF t.result.ok
    THEN Say(t.msg_channel, "downloaded",
             DownloadedPrefix \o t.url \o DownloadedSuffix, res)
    ELSE Say(t.msg_channel, "failed",
             FailedPrefix \o t.url \o FailedSep \o ErrorDisplay(t.result.err), res)

\* the task sends its terminal reply and ends
TaskReply(m, res) ==
    /\ m \in Delivered
    /\ tasks[m].pc = "finished"
    /\ sent' = [sent EXCEPT ![m] = Append(@, TerminalReply(tasks[m], res))]
    /\ tasks' = [tasks EXCEPT ![m].pc = "done"]
    /\ UNCHANGED <<config, msgs, handler, mkdirs, procs, logged, reconciliation>>

(***************************************************************************)
(* Handler::ready.                                                         *)
(***************************************************************************)
\* Ready that takes the joined servers for the new allow-list
Ready_AdoptsJoined(guilds) ==
    /\ Len(readies) < MaxReady
    /\ readies' = Append(readies,
           [guilds |-> guilds, next |-> 1,
            pc |-> IF IsSome(allowed_guilds) /\ Len(guilds) > 0
                   THEN "loop" ELSE "returned"])
    /\ leaves' = Append(leaves, << >>)
    /\ allowed_guilds' = Some(guilds)
    /\ UNCHANGED <<allowed_channel, output_dir, cookies_path, pipeline>>

\* a ready event arrives; without an allow-list the handler returns at once
Ready(guilds) ==
    /\ Len(readies) < MaxReady
    /\ readies' = Append(readies,
           [guilds |-> guilds, next |-> 1,
            pc |-> IF IsSome(allowed_guilds) /\ Len(guilds) > 0
                   THEN "loop" ELSE "returned"])
    /\ leaves' = Append(leaves, << >>)
    /\ UNCHANGED <<config, pipeline>>

\* the leave call of one loop iteration made for the guilds on the allow-list
LeaveCalls_Inverted(guild, res) ==
    IF VecContains(Unwrap(allowed_guilds), guild)
    THEN << [guild |-> guild, res |-> res] >>
    ELSE << >>

\* the leave call of one loop iteration, if the guild is not on the allow-list
LeaveCalls(guild, res) ==
    IF ~VecContains(Unwrap(allowed_guilds), guild)
    THEN << [guild |-> guild, res |-> res] >>
    ELSE << >>

\* ReadyPc with a failed leave call ending the handler
ReadyPc_StopOnError(r, res) ==
    IF readies[r].next = Len(readies[r].guilds) \/ res = "err"
    THEN "returned" ELSE "loop"

\* the loop goes on to the next guild, whatever the leave call returned
ReadyPc(r, res) ==
    IF readies[r].next = Len(readies[r].guilds) THEN "returned" ELSE "loop"

\* one iteration of the loop over ready.guilds
ReadyStep(r, res) ==
    /\ r \in 1..Len(readies)
    /\ readies[r].pc = "loop"
    /\ LET guild == readies[r].guilds[readies[r].next]
       IN  /\ VecContains(Unwrap(allowed_guilds), guild) => res = "ok"
           /\ leaves' = [leaves EXCEPT ![r] = @ \o LeaveCalls(guild, res)]
    /\ readies' = [readies EXCEPT
           ![r].next = @ + 1,
           ![r].pc = ReadyPc(r, res)]
    /\ UNCHANGED <<config, pipeline>>

(***************************************************************************)
(* Specifications.                                                         *)
(***************************************************************************)
\* a message event from one of the origins
MessageEvent ==
    \E o \in Origins, content \in Contents, res \in SendResults :
        Message(o.bot, o.guild_id, o.channel_id, content, res)

\* a message event with any combination of author, server and channel
MessageEventAny ==
    \E bot \in BotFlags, guild_id \in GuildIds, channel_id \in ChannelIds,
       content \in Contents, res \in SendResults :
        Message(bot, guild_id, channel_id, content, res)

Spawn == \E m \in Delivered : MessageSpawn(m)

Start == \E m \in Delivered : \E dres \in CreateDirResults, sres \in SpawnResults :
             TaskStart(m, dres, sres)

WaitError == \E m \in Delivered : \E werr \in WaitErrors : TaskWaitError(m, werr)

Wait == \E m \in Delivered : \E code \in ExitCodes, stderr \in Stderrs :
            TaskWait(m, code, stderr)

Reply == \E m \in Delivered : \E res \in SendResults : TaskReply(m, res)

ReadyEvent == \E guilds \in JoinedLists : Ready(guilds)

Reconcile == \E r \in 1..Len(readies) : \E res \in SendResults : ReadyStep(r, res)

\* message events and download tasks, in any interleaving
Next ==
    \/ MessageEvent
    \/ Spawn
    \/ Start
    \/ WaitError
    \/ Wait
    \/ Reply

Spec == Init /\ [][Next]_vars

\* the runtime polls every spawned task, and every downloader that was
\* launched exits or cannot be waited for
TaskFairness ==
    \A m \in 1..MaxMsgs :
        /\ WF_vars(\E dres \in CreateDirResults, sres \in SpawnResults :
                      TaskStart(m, dres, sres))
        /\ WF_vars(\/ \E code \in ExitCodes, stderr \in Stderrs :
                          TaskWait(m, code, stderr)
                   \/ \E werr \in WaitErrors : TaskWaitError(m, werr))
        /\ WF_vars(\E res \in SendResults : TaskReply(m, res))

\* the pipeline under the configuration with both restrictions
FairInit ==
    /\ allowed_guilds = Some(<<1>>)
    /\ allowed_channel = Some(5)
    /\ output_dir = DirOut
    /\ cookies_path = Some(CookiesFile)
    /\ Empty

FairSpec == FairInit /\ [][Next]_vars /\ TaskFairness

\* the authorization decision over all its inputs
AuthNext == MessageEventAny

AuthSpec == AuthInit /\ [][AuthNext]_vars

\* the reconciliation on ready events; it shares no state with the pipeline
ReadyNext ==
    \/ ReadyEvent
    \/ Reconcile

ReadySpec == ReadyInit /\ [][ReadyNext]_vars

\* the matcher over its texts: no restriction is configured, so that every
\* message reaches url_regex.find
MatchInit ==
    /\ allowed_guilds = None
    /\ allowed_channel = None
    /\ output_dir = DirOut
    /\ cookies_path = None
    /\ Empty

\* a direct message of a user with one of the matcher texts
MatchEvent ==
    \E content \in MatchTexts : Message(FALSE, None, 5, content, "ok")

\* message events, and the tasks up to the launch of the downloader
MatchNext ==
    \/ MatchEvent
    \/ Spawn
    \/ Start

MatchSpec == MatchInit /\ [][MatchNext]_vars

\* a message event of a user in the allowed server and channel
DownEvent ==
    \E content \in Contents : Message(FALSE, Some(1), 5, content, "ok")

\* the child exits with any of the exit codes and standard error texts
WaitAny == \E m \in Delivered : \E code \in AnyExitCodes, stderr \in AnyStderrs :
               TaskWait(m, code, stderr)

\* the pipeline over the exits of the downloader
DownNext ==
    \/ DownEvent
    \/ Spawn
    \/ Start
    \/ WaitError
    \/ WaitAny
    \/ Reply

DownSpec == FairInit /\ [][DownNext]_vars

\* a direct message of a user in one of the two channels
IsoEvent ==
    \E o \in IsoMessages : Message(FALSE, None, o.channel_id, o.content, "ok")

\* the pipeline over messages that differ in channel and URL
IsoNext ==
    \/ IsoEvent
    \/ Spawn
    \/ Start
    \/ WaitError
    \/ Wait
    \/ Reply

IsoSpec == MatchInit /\ [][IsoNext]_vars

\* a message event of one of the origins, with a well-formed URL
SysEvent ==
    \E o \in Origins : Message(o.bot, o.guild_id, o.channel_id, TextVideo, "ok")

\* a ready event that reports an unlisted and a listed server
SysReady == Ready(<<2, 1>>)

\* message events, download tasks and ready events, in any interleaving
SysNext ==
    \/ SysEvent
    \/ Spawn
    \/ Start
    \/ WaitError
    \/ Wait
    \/ Reply
    \/ SysReady
    \/ Reconcile

SysSpec == FairInit /\ [][SysNext]_vars

(***************************************************************************)
(* What the claims speak of.                                               *)
(***************************************************************************)
\* the number of replies of the given kinds sent for message m
CountKind(m, kinds) ==
    Cardinality({ i \in 1..Len(sent[m]) : sent[m][i].kind \in kinds })

Terminal == {"downloaded", "failed"}

\* the message comes from a server or a channel the configuration excludes
DisallowedOrigin(msg) ==
    \/ /\ allowed_guilds # None
       /\ msg.guild_id # None
       /\ msg.guild_id[1] \notin Range(allowed_guilds[1])
    \/ /\ allowed_channel # None
       /\ msg.channel_id # allowed_channel[1]

\* the reference function of the authorization decision
AllowReference(bot, guild_id, channel_id, allow_list, channel) ==
    /\ ~bot
    /\ (allow_list = None \/ guild_id = None
          \/ guild_id[1] \in Range(allow_list[1]))
    /\ (channel = None \/ channel_id = channel[1])

\* the reply sent last for message m
LastReply(m) == sent[m][Len(sent[m])]

\* the acknowledgment of m has been attempted, and first of all its replies
AckAttempted(m) == Len(sent[m]) >= 1 /\ sent[m][1].kind = "ack"

(***************************************************************************)
(* C1: for every message at most one acknowledgment and at most one        *)
(* terminal reply is sent, and nothing at all is sent for a message of an  *)
(* automated agent or of a disallowed server or channel.                   *)
(***************************************************************************)
C1_ReplyCounts ==
    \A m \in Delivered :
        /\ CountKind(m, {"ack"}) <= 1
        /\ CountKind(m, Terminal) <= 1
        /\ (msgs[m].bot \/ DisallowedOrigin(msgs[m])) => sent[m] = << >>

\* a served message next to a message of an automated agent
C1_Witness ==
    \E m, k \in Delivered :
        /\ CountKind(m, {"ack"}) = 1 /\ CountKind(m, Terminal) = 1
        /\ msgs[k].bot /\ msgs[k].content = TextVideo /\ sent[k] = << >>

(***************************************************************************)
(* C2: the decision at the top of Handler::message is: allow iff the       *)
(* author is no bot, and no allow-list is configured or the message has no *)
(* server or its server is listed, and no channel is configured or the     *)
(* message is in it.                                                       *)
(***************************************************************************)
C2_Authorization ==
    \A m \in Delivered :
        (handler[m].route # "denied") <=>
            AllowReference(msgs[m].bot, msgs[m].guild_id, msgs[m].channel_id,
                           allowed_guilds, allowed_channel)

\* a direct message let through a configured allow-list, next to a message of
\* an allowed server denied for its channel
C2_Witness ==
    /\ allowed_guilds = Some(<<1>>) /\ allowed_channel = Some(5)
    /\ \E m, k \in Delivered :
          /\ msgs[m].guild_id = None /\ handler[m].route # "denied"
          /\ msgs[k].guild_id = Some(1) /\ msgs[k].channel_id = 7
          /\ ~msgs[k].bot /\ handler[k].route = "denied"

(***************************************************************************)
(* C3: the acknowledgment of a message is sent, and has returned, before   *)
(* its download task is spawned, before its directory is created, before   *)
(* its downloader is launched and before its terminal reply.               *)
(***************************************************************************)
C3_Step(m) ==
    /\ (tasks[m].pc = "none" /\ tasks'[m].pc # "none") => AckAttempted(m)
    /\ (mkdirs'[m] # mkdirs[m]) => (AckAttempted(m) /\ tasks[m].pc # "none")
    /\ (procs'[m] # procs[m]) => (AckAttempted(m) /\ tasks[m].pc # "none")
    /\ (CountKind(m, Terminal)' > CountKind(m, Terminal))
          => (AckAttempted(m) /\ tasks[m].pc # "none")

C3_AckFirst ==
    [][ /\ \A m \in Delivered : C3_Step(m)
        /\ \A m \in Delivered' :
              handler'[m].route = "Valid" => AckAttempted(m)' ]_vars

\* a task has replied after its acknowledgment
C3_Witness ==
    \E m \in Delivered :
        /\ AckAttempted(m) /\ Len(sent[m]) = 2
        /\ sent[m][2].kind \in Terminal /\ Len(procs[m]) = 1
        /\ tasks[m].url = UrlVideo

(***************************************************************************)
(* C4: under fair scheduling of the tasks and with a downloader that       *)
(* exits, every dispatched task attempts exactly one terminal reply, a     *)
(* success reply for Ok and a failure reply otherwise; no task ends        *)
(* without one, and no task is cancelled: a task only moves forward.       *)
(***************************************************************************)
Dispatched(m) == m \in Delivered /\ tasks[m].pc # "none"

Replied(m) ==
    /\ m \in Delivered
    /\ tasks[m].pc = "done"
    /\ CountKind(m, Terminal) = 1
    /\ sent[m][Len(sent[m])].kind =
           (IF tasks[m].result.ok THEN "downloaded" ELSE "failed")

TaskOrder == <<"none", "spawned", "waiting", "finished", "done">>
TaskRank(pc) == CHOOSE i \in 1..Len(TaskOrder) : TaskOrder[i] = pc

C4_TerminalReply ==
    /\ \A m \in 1..MaxMsgs : Dispatched(m) ~> Replied(m)
    /\ [](\A m \in Delivered : tasks[m].pc = "done" => Replied(m))
    /\ [][\A m \in Delivered :
             /\ TaskRank(tasks'[m].pc) >= TaskRank(tasks[m].pc)
             /\ (tasks[m].pc # "done" /\ tasks'[m].pc = "done")
                   => tasks[m].pc = "finished"]_vars

\* one task has reported a success and another a failure
C4_Witness ==
    \E m, k \in Delivered :
        /\ Replied(m) /\ tasks[m].result.ok
        /\ Replied(k) /\ ~tasks[k].result.ok

(***************************************************************************)
(* C5: Handler::message never waits for a download: whatever downloads are *)
(* in flight, a handler that has acknowledged can spawn and return, and a  *)
(* new message event of any origin can be handled; the handler has         *)
(* returned as soon as the task is spawned; nothing caps the downloads in  *)
(* flight.                                                                 *)
(***************************************************************************)
\* a message event of origin o with the given text
MessageFrom(o, content) ==
    \E res \in SendResults : Message(o.bot, o.guild_id, o.channel_id, content, res)

InFlight == { m \in Delivered : tasks[m].pc \in {"spawned", "waiting", "finished"} }

C5_NeverWaits ==
    /\ \A m \in Delivered :
          /\ handler[m].pc = "acked" => ENABLED MessageSpawn(m)
          /\ tasks[m].pc # "none" => handler[m].pc = "returned"
    /\ Len(msgs) < MaxMsgs =>
          \A o \in Origins, content \in Contents : ENABLED MessageFrom(o, content)

\* a later message is acknowledged, dispatched and answered while the
\* downloader of the first message is still running
C5_Witness ==
    /\ Len(msgs) >= 2
    /\ tasks[1].pc = "waiting"
    /\ \E m \in Delivered \ {1} : Replied(m) /\ msgs[m].channel_id # msgs[1].channel_id

\* as many downloads are in flight at the same time as messages can arrive,
\* each with its downloader running
C5_AllInFlight ==
    /\ Cardinality(InFlight) = MaxMsgs
    /\ \A m \in Delivered : tasks[m].pc = "waiting"

(***************************************************************************)
(* C6: an allowed message without a URL candidate, or whose first          *)
(* candidate fails the strict check, gets exactly one reply, Invalid URL., *)
(* in its own channel, and nothing else: no acknowledgment, no task, no    *)
(* directory, no downloader, no terminal reply.                            *)
(***************************************************************************)
AllowedMsg(msg) ==
    AllowReference(msg.bot, msg.guild_id, msg.channel_id,
                   allowed_guilds, allowed_channel)

C6_InvalidOnly ==
    \A m \in Delivered :
        (AllowedMsg(msgs[m]) /\ msgs[m].content \in {TextNoUrl, TextBadHost}) =>
            /\ Len(sent[m]) = 1
            /\ sent[m][1].channel = msgs[m].channel_id
            /\ sent[m][1].text = InvalidUrlText
            /\ handler[m].pc = "returned"
            /\ tasks[m].pc = "none"
            /\ mkdirs[m] = << >>
            /\ procs[m] = << >>

\* a message without a candidate and one with an invalid candidate, both
\* answered
C6_Witness ==
    \E a, b \in Delivered :
        /\ msgs[a].content = TextBadHost /\ Len(sent[a]) = 1
        /\ msgs[b].content = TextNoUrl /\ Len(sent[b]) = 1

(***************************************************************************)
(* C7: on a ready event with an allow-list, leave is called exactly once   *)
(* for each joined server that is not listed and never for a listed one;   *)
(* without an allow-list leave is never called.                            *)
(***************************************************************************)
\* the joined servers of ready event r that are not on the allow-list
Unauthorized(r) ==
    { g \in Range(readies[r].guilds) : g \notin Range(allowed_guilds[1]) }

LeaveCount(r, g) ==
    Cardinality({ i \in 1..Len(leaves[r]) : leaves[r][i].guild = g })

C7_Reconciliation ==
    \A r \in 1..Len(readies) :
        /\ allowed_guilds = None => leaves[r] = << >>
        /\ allowed_guilds # None =>
              /\ \A i \in 1..Len(leaves[r]) : leaves[r][i].guild \in Unauthorized(r)
              /\ \A g \in Unauthorized(r) : LeaveCount(r, g) <= 1
              /\ readies[r].pc = "returned" =>
                    \A g \in Unauthorized(r) : LeaveCount(r, g) = 1

\* allow-list [1], joined [1, 2, 3]: leave for 2 and 3 only
C7_Witness ==
    /\ allowed_guilds = Some(<<1>>)
    /\ \E r \in 1..Len(readies) :
          /\ readies[r].guilds = <<1, 2, 3>>
          /\ readies[r].pc = "returned"
          /\ Len(leaves[r]) = 2
          /\ leaves[r][1].guild = 2 /\ leaves[r][2].guild = 3

(***************************************************************************)
(* C8: a failed leave call does not stop the reconciliation: whichever     *)
(* calls fail, every unauthorized joined server still gets its leave       *)
(* attempt, and the handler goes through the whole list and returns.       *)
(***************************************************************************)
C8_LeaveErrors ==
    \A r \in 1..Len(readies) :
        /\ readies[r].pc = "loop" =>
              /\ readies[r].next <= Len(readies[r].guilds)
              /\ ENABLED (\E res \in SendResults : ReadyStep(r, res))
        /\ readies[r].pc = "returned" =>
              /\ allowed_guilds # None => readies[r].next = Len(readies[r].guilds) + 1
              /\ allowed_guilds # None =>
                    \A g \in Unauthorized(r) :
                        \E i \in 1..Len(leaves[r]) : leaves[r][i].guild = g

\* the first leave call failed and the later one was still made
C8_Witness ==
    \E r \in 1..Len(readies) :
        /\ readies[r].pc = "returned"
        /\ Len(leaves[r]) = 2
        /\ leaves[r][1].res = "err"
        /\ leaves[r][2].res = "ok"

(***************************************************************************)
(* C9: an error on the download path becomes the Err result of that task   *)
(* and its failure reply; the step in which it happens touches no other    *)
(* message, the task still sends its reply, every other task and handler   *)
(* can still take its next step and new message events are still handled.  *)
(***************************************************************************)
Failed(m) == tasks[m].pc \in {"finished", "done"} /\ ~tasks[m].result.ok

\* every handler and task that has a next step can take it
NobodyStopped ==
    /\ Len(msgs) < MaxMsgs => ENABLED MessageEvent
    /\ \A k \in Delivered :
          /\ handler[k].pc = "acked" => ENABLED MessageSpawn(k)
          /\ tasks[k].pc = "spawned" =>
                ENABLED (\E dres \in CreateDirResults, sres \in SpawnResults :
                            TaskStart(k, dres, sres))
          /\ tasks[k].pc = "waiting" =>
                ENABLED (\E code \in ExitCodes, stderr \in Stderrs :
                            TaskWait(k, code, stderr))
          /\ tasks[k].pc = "finished" =>
                ENABLED (\E res \in SendResults : TaskReply(k, res))

OthersUntouched(m) ==
    \A k \in Delivered \ {m} :
        /\ msgs'[k] = msgs[k]
        /\ handler'[k] = handler[k]
        /\ tasks'[k] = tasks[k]
        /\ mkdirs'[k] = mkdirs[k]
        /\ procs'[k] = procs[k]
        /\ sent'[k] = sent[k]

C9_ErrorsContained ==
    /\ []((\E m \in Delivered : Failed(m)) => NobodyStopped)
    /\ [](\A m \in Delivered :
             (tasks[m].pc = "done" /\ ~tasks[m].result.ok) =>
                 /\ CountKind(m, Terminal) = 1
                 /\ sent[m][Len(sent[m])].kind = "failed"
                 /\ sent[m][Len(sent[m])].channel = msgs[m].channel_id)
    /\ [][\A m \in Delivered :
             (~Failed(m) /\ Failed(m)') =>
                 /\ tasks'[m].pc = "finished"
                 /\ sent' = sent
                 /\ handler' = handler
                 /\ OthersUntouched(m)]_vars

\* one task has failed, here on waiting for its downloader, and has sent its
\* failure reply; the task of the other message has succeeded
C9_Witness ==
    \E m, k \in Delivered :
        /\ tasks[m].pc = "done" /\ ~tasks[m].result.ok
        /\ tasks[m].result.err[1] = WaitContext
        /\ LastReply(m).kind = "failed"
        /\ tasks[k].pc = "done" /\ tasks[k].result.ok

(***************************************************************************)
(* C10: when create_dir_all fails the Err carries the I/O error, when the  *)
(* spawn fails the Err carries the launch error, in both cases the failure *)
(* reply contains the text of that underlying error, and after a failed    *)
(* create_dir_all no downloader is launched.                               *)
(***************************************************************************)
C10_ReplyShowsCause ==
    \A m \in Delivered :
        /\ (mkdirs[m] # << >> /\ mkdirs[m][Len(mkdirs[m])] # None
              /\ tasks[m].pc \in {"finished", "done"}) =>
              /\ ~tasks[m].result.ok
              /\ tasks[m].result.err[Len(tasks[m].result.err)]
                     = mkdirs[m][Len(mkdirs[m])][1]
              /\ procs[m] = << >>
              /\ tasks[m].pc = "done" =>
                    Contains(LastReply(m).text, mkdirs[m][Len(mkdirs[m])][1])
        /\ (tasks[m].pc \in {"finished", "done"} /\ ~tasks[m].result.ok
              /\ tasks[m].result.err[1] = SpawnContext) =>
              /\ tasks[m].result.err[2] \in { e[1] : e \in SpawnResults \ {None} }
              /\ tasks[m].pc = "done" =>
                    Contains(LastReply(m).text, tasks[m].result.err[2])

\* the part of C10 about the result and the downloader, without the reply
C10_ErrCarriesCause ==
    \A m \in Delivered :
        /\ (mkdirs[m] # << >> /\ mkdirs[m][Len(mkdirs[m])] # None
              /\ tasks[m].pc \in {"finished", "done"}) =>
              /\ ~tasks[m].result.ok
              /\ tasks[m].result.err[Len(tasks[m].result.err)]
                     = mkdirs[m][Len(mkdirs[m])][1]
              /\ procs[m] = << >>
        /\ (tasks[m].pc \in {"finished", "done"} /\ ~tasks[m].result.ok
              /\ tasks[m].result.err[1] = SpawnContext) =>
              tasks[m].result.err[2] \in { e[1] : e \in SpawnResults \ {None} }

(***************************************************************************)
(* C11: when https://good.example.com/path is the leftmost candidate of a  *)
(* text (no https?://\S+ match begins before it) and is followed by white  *)
(* space or by the end of the text, the matcher returns Valid and the URL  *)
(* handed to the task is exactly that substring.                           *)
(***************************************************************************)
\* sub stands in text with no candidate beginning before it, and white space
\* or the end of the text after it
LeftmostDelimited(text, sub) ==
    \E i \in 1..Len(text) :
        /\ MatchesAt(text, sub, i)
        /\ \A j \in 1..(i - 1) : ~UrlStartsAt(text, j)
        /\ \/ i + Len(sub) - 1 = Len(text)
           \/ IsSpace(text[i + Len(sub)])

\* message m was classified Valid and, once its task exists, the task has url
ValidWith(m, url) ==
    /\ handler[m].route = "Valid"
    /\ tasks[m].pc # "none" => tasks[m].url = url
    /\ \A i \in 1..Len(procs[m]) : procs[m][i].args[1] = url

C11_GoodUrlExtracted ==
    \A m \in Delivered :
        LeftmostDelimited(msgs[m].content, UrlGood) => ValidWith(m, UrlGood)

\* the claim as stated, for every text that contains the URL anywhere
C11_AnyTextContaining ==
    \A m \in Delivered :
        Contains(msgs[m].content, UrlGood) => ValidWith(m, UrlGood)

\* the URL between other words was extracted and handed to a downloader,
\* while the URL followed by a full stop was extracted with the full stop
C11_Witness ==
    \E m, k \in Delivered :
        /\ msgs[m].content = TextGoodInSentence
        /\ Len(procs[m]) = 1 /\ procs[m][1].args[1] = UrlGood
        /\ msgs[k].content = TextGoodDot
        /\ tasks[k].pc # "none" /\ tasks[k].url = TextGoodDot

(***************************************************************************)
(* C12: when http://bad_host is the leftmost candidate of a text and is    *)
(* followed by white space or by the end of the text, the matcher returns  *)
(* Invalid: the message gets the one reply Invalid URL. and no task, no    *)
(* directory and no downloader.                                            *)
(***************************************************************************)
\* message m was classified Invalid, answered so, and nothing was dispatched
InvalidAnswered(m) ==
    /\ handler[m].route = "Invalid"
    /\ handler[m].pc = "returned"
    /\ Len(sent[m]) = 1
    /\ sent[m][1].kind = "invalid" /\ sent[m][1].text = InvalidUrlText
    /\ tasks[m].pc = "none"
    /\ mkdirs[m] = << >>
    /\ procs[m] = << >>

C12_BadHostRejected ==
    \A m \in Delivered :
        LeftmostDelimited(msgs[m].content, TextBadHost) => InvalidAnswered(m)

\* the claim as stated, for every text that contains the candidate anywhere
C12_AnyTextContaining ==
    \A m \in Delivered :
        Contains(msgs[m].content, TextBadHost) => InvalidAnswered(m)

\* the candidate between other words was rejected, while the text that goes
\* on with .com was accepted and handed to a downloader
C12_Witness ==
    \E m, k \in Delivered :
        /\ msgs[m].content = TextBadInSentence /\ InvalidAnswered(m)
        /\ msgs[k].content = TextBadHostCom
        /\ Len(procs[k]) = 1 /\ procs[k][1].args[1] = TextBadHostCom

(***************************************************************************)
(* C13: a failed send of any reply (acknowledgment, Invalid URL., success  *)
(* notice, failure notice) is logged, and it is swallowed: no reply is     *)
(* sent twice, and after a failed acknowledgment the task is still spawned *)
(* and still attempts its terminal reply.                                  *)
(***************************************************************************)
\* the replies of message m whose send failed
FailedSends(m) == { i \in 1..Len(sent[m]) : sent[m][i].res = "err" }

\* no send is repeated, and a failed send stops neither handler nor task
SendFailuresSwallowed(m) ==
    /\ \A kind \in {"ack", "invalid", "downloaded", "failed"} :
          CountKind(m, {kind}) <= 1
    /\ CountKind(m, Terminal) <= 1
    /\ (AckAttempted(m) /\ sent[m][1].res = "err") =>
          /\ handler[m].pc = "acked" => ENABLED MessageSpawn(m)
          /\ handler[m].pc = "returned" => tasks[m].pc # "none"
          /\ tasks[m].pc = "finished" =>
                ENABLED (\E res \in SendResults : TaskReply(m, res))
          /\ tasks[m].pc = "done" => CountKind(m, Terminal) = 1

C13_SendFailuresLogged ==
    \A m \in Delivered :
        /\ SendFailuresSwallowed(m)
        /\ Len(logged[m]) = Cardinality(FailedSends(m))

\* what the code does: only the failed acknowledgment leaves a line in the log
C13_OnlyAckFailureLogged ==
    \A m \in Delivered :
        /\ SendFailuresSwallowed(m)
        /\ logged[m] =
              (IF AckAttempted(m) /\ sent[m][1].res = "err"
               THEN << AckLogPrefix \o ErrSend >> ELSE << >>)

\* a failed acknowledgment was followed by the download and a terminal reply
\* whose send failed as well
C13_AckFailedTaskReplied ==
    \E m \in Delivered :
        /\ AckAttempted(m) /\ sent[m][1].res = "err"
        /\ tasks[m].pc = "done" /\ Len(procs[m]) = 1
        /\ Len(sent[m]) = 2 /\ sent[m][2].res = "err"
        /\ Len(logged[m]) = 1

(***************************************************************************)
(* C14: the downloader is yt-dlp with the arguments url, -P, output_dir,   *)
(* followed by --cookies, path exactly when a credential path is           *)
(* configured; url is the substring extracted from the message, output_dir *)
(* and path are the configured values; stdout is discarded and stderr is   *)
(* captured.                                                               *)
(***************************************************************************)
C14_Invocation ==
    \A m \in Delivered : \A i \in 1..Len(procs[m]) :
        LET p == procs[m][i]
        IN  /\ p.program = Program
            /\ Len(p.args) = (IF cookies_path = None THEN 3 ELSE 5)
            /\ msgs[m].content = TextVideo /\ p.args[1] = UrlVideo
            /\ p.args[2] = FlagP
            /\ p.args[3] = output_dir
            /\ cookies_path # None =>
                  /\ p.args[4] = FlagCookies
                  /\ p.args[5] = cookies_path[1]
            /\ p.stdout = "null"
            /\ p.stderr = "piped"

\* with a credential file configured a downloader was launched with five
\* arguments
C14_Witness ==
    /\ cookies_path = Some(CookiesFile)
    /\ \E m \in Delivered :
          /\ Len(procs[m]) = 1
          /\ procs[m][1].args = <<UrlVideo, FlagP, DirOut, FlagCookies, CookiesFile>>

\* without a credential file a downloader was launched with three arguments
C14_WitnessNoCookies ==
    /\ cookies_path = None
    /\ \E m \in Delivered :
          /\ Len(procs[m]) = 1
          /\ procs[m][1].args = <<UrlVideo, FlagP, DirOut>>

(***************************************************************************)
(* C15: once the downloader has been launched and has exited, the result   *)
(* is Ok exactly when the exit code is zero, whatever was written to       *)
(* standard error; for a non-zero exit code the result is an Err whose     *)
(* message contains the exit status and the captured standard error        *)
(* without its leading and trailing white space.                           *)
(***************************************************************************)
\* the exit of the downloader of message m, once wait_with_output has returned
Exited(m) == Len(procs[m]) = 1 /\ procs[m][1].exit # None
ExitOf(m) == procs[m][1].exit[1]

\* "exit status: " and the exit code in decimal
ExitStatusShown(code) ==
    ExitStatusPrefix \o
    (CASE code = 1 -> <<"1">> [] code = 2 -> <<"2">>
       [] code = 127 -> <<"1", "2", "7">> [] OTHER -> <<"0">>)

\* what str::trim leaves of the captured standard error
TrimmedStderr(raw) == (CHOOSE c \in StderrCases : c.raw = raw).trimmed

C15_ExitDecides ==
    \A m \in Delivered :
        Exited(m) =>
            /\ tasks[m].pc \in {"finished", "done"}
            /\ tasks[m].result.ok <=> (ExitOf(m).code = 0)
            /\ ExitOf(m).code # 0 =>
                  /\ Len(tasks[m].result.err) = 1
                  /\ tasks[m].result.err[1] =
                        StatusPrefix \o ExitStatusShown(ExitOf(m).code)
                        \o StderrPrefix \o TrimmedStderr(ExitOf(m).stderr)

\* one downloader wrote to standard error and exited with 0: success; another
\* exited with 127 and two lines on standard error: failure
C15_Witness ==
    \E m, k \in Delivered :
        /\ Exited(m) /\ ExitOf(m).code = 0 /\ ExitOf(m).stderr = StderrNoise
        /\ tasks[m].result.ok
        /\ Exited(k) /\ ExitOf(k).code = 127 /\ ExitOf(k).stderr = StderrLines
        /\ ~tasks[k].result.ok
        /\ Contains(tasks[k].result.err[1], StderrLinesTrimmed)
        /\ ~Contains(tasks[k].result.err[1], StderrLines)

(***************************************************************************)
(* C16: only the leftmost candidate of a message counts: when the first    *)
(* match of https?://\S+ fails the strict check the message is answered    *)
(* Invalid URL. and nothing is dispatched, even when a later candidate     *)
(* would pass; and a message with several valid URLs causes one download,  *)
(* of its first URL.                                                       *)
(***************************************************************************)
\* the positions at which a candidate begins, and the candidate beginning at i
CandidateStarts(text) == { i \in 1..Len(text) : UrlStartsAt(text, i) }
CandidateAt(text, i) == Slice(text, i, RunEnd(text, i))
FirstCandidate(text) ==
    CandidateAt(text, CHOOSE i \in CandidateStarts(text) :
                          \A j \in CandidateStarts(text) : i <= j)
\* the candidates after the first one that do not lie inside it
LaterCandidates(text) ==
    LET first == CHOOSE i \in CandidateStarts(text) :
                     \A j \in CandidateStarts(text) : i <= j
    IN  { CandidateAt(text, i) : i \in { j \in CandidateStarts(text) :
                                            j > RunEnd(text, first) } }

\* per text: its first candidate, and whether that passes the strict check
FirstCandidates ==
    [text \in MatchTexts |->
        IF CandidateStarts(text) = {} THEN None ELSE Some(FirstCandidate(text))]
FirstIsValid ==
    [text \in MatchTexts |->
        IsSome(FirstCandidates[text]) /\ is_valid_url(Unwrap(FirstCandidates[text]))]
\* per text: does a candidate after the first one pass the strict check
LaterIsValid ==
    [text \in MatchTexts |->
        /\ CandidateStarts(text) # {}
        /\ \E c \in LaterCandidates(text) : is_valid_url(c)]

C16_LeftmostOnly ==
    \A m \in Delivered :
        IsSome(FirstCandidates[msgs[m].content]) =>
            /\ ~FirstIsValid[msgs[m].content] => InvalidAnswered(m)
            /\ FirstIsValid[msgs[m].content] =>
                   ValidWith(m, Unwrap(FirstCandidates[msgs[m].content]))
            /\ Len(mkdirs[m]) <= 1
            /\ Len(procs[m]) <= 1

\* a message whose second candidate is well-formed was answered Invalid URL.,
\* and a message with two well-formed URLs has one downloader, for the first
C16_Witness ==
    \E m, k \in Delivered :
        /\ msgs[m].content = TextBadThenGood
        /\ LaterIsValid[msgs[m].content]
        /\ InvalidAnswered(m)
        /\ msgs[k].content = TextGoodThenVideo
        /\ LaterIsValid[msgs[k].content]
        /\ Len(procs[k]) = 1 /\ procs[k][1].args[1] = UrlGood

(***************************************************************************)
(* C17: in every interleaving of the download tasks, the terminal reply of *)
(* a task goes to the channel of its own message and names the URL of its  *)
(* own message; each task holds the URL, directory and credential path it  *)
(* captured at its spawn, its result follows its own downloader, and a     *)
(* step of one task changes nothing of any other message.                  *)
(***************************************************************************)
\* the URL the text of message m carries
OwnUrl(m) ==
    CASE msgs[m].content = TextVideo -> UrlVideo
      [] msgs[m].content = TextGoodInSentence -> UrlGood
      [] OTHER -> << >>

\* the terminal reply of m is addressed and worded for m
OwnReply(m) ==
    \A i \in 1..Len(sent[m]) :
        /\ sent[m][i].channel = msgs[m].channel_id
        /\ sent[m][i].kind = "downloaded" =>
              /\ tasks[m].result.ok
              /\ sent[m][i].text = DownloadedPrefix \o OwnUrl(m) \o DownloadedSuffix
        /\ sent[m][i].kind = "failed" =>
              /\ ~tasks[m].result.ok
              /\ sent[m][i].text =
                    FailedPrefix \o OwnUrl(m) \o FailedSep \o tasks[m].result.err[1]

\* the task of m holds what was captured for m, and its result is that of
\* its own downloader
OwnTask(m) ==
    tasks[m].pc # "none" =>
        /\ tasks[m].url = OwnUrl(m)
        /\ tasks[m].msg_channel = msgs[m].channel_id
        /\ tasks[m].output_dir = output_dir
        /\ tasks[m].cookies_path = cookies_path
        /\ \A i \in 1..Len(procs[m]) : procs[m][i].args[1] = OwnUrl(m)
        /\ (Len(procs[m]) = 1 /\ procs[m][1].exit # None) =>
              (tasks[m].result.ok <=> procs[m][1].exit[1].code = 0)

\* the messages whose part of the state a step changes
Touched ==
    { m \in Delivered :
        \/ tasks'[m] # tasks[m] \/ sent'[m] # sent[m] \/ procs'[m] # procs[m]
        \/ mkdirs'[m] # mkdirs[m] \/ handler'[m] # handler[m]
        \/ logged'[m] # logged[m] \/ msgs'[m] # msgs[m] }

C17_Isolation ==
    /\ [](\A m \in Delivered : OwnReply(m) /\ OwnTask(m))
    /\ [][Cardinality(Touched) <= (IF Len(msgs') > Len(msgs) THEN 0 ELSE 1)]_vars

\* two tasks for different channels and URLs were in flight together and
\* finished in the opposite order of their messages, one well, one not
C17_Witness ==
    /\ Len(msgs) >= 2
    /\ msgs[1].channel_id # msgs[2].channel_id
    /\ tasks[1].pc = "finished" /\ ~tasks[1].result.ok
    /\ tasks[2].pc = "done" /\ tasks[2].result.ok
    /\ LastReply(2).kind = "downloaded"
    /\ LastReply(2).channel = msgs[2].channel_id
    /\ Contains(LastReply(2).text, OwnUrl(2))

(***************************************************************************)
(* C18: at most one downloader is ever launched for a message, none for a  *)
(* message that was denied or has no valid first candidate, none again     *)
(* after a failure; and a launch happens only after the acknowledgment of  *)
(* that message was attempted and its create_dir_all has succeeded.        *)
(***************************************************************************)
\* the step launches a downloader for message m
Launches(m) == Len(procs'[m]) > Len(procs[m])

C18_Launches ==
    /\ [](\A m \in Delivered :
             /\ Len(procs[m]) <= 1
             /\ (~AllowedMsg(msgs[m]) \/ msgs[m].content \in {TextNoUrl, TextBadHost})
                   => procs[m] = << >>
             /\ Len(procs[m]) = 1 =>
                   /\ AckAttempted(m)
                   /\ mkdirs[m] = << None >>
             /\ Len(mkdirs[m]) <= 1)
    /\ [][\A m \in Delivered :
             /\ Launches(m) =>
                   /\ AckAttempted(m)
                   /\ procs[m] = << >>
                   /\ mkdirs'[m] # << >>
                   /\ mkdirs'[m][Len(mkdirs'[m])] = None
             /\ tasks[m].pc \in {"waiting", "finished", "done"} =>
                   /\ procs'[m] = procs[m] \/ (~Launches(m) /\ tasks[m].pc = "waiting")
                   /\ mkdirs'[m] = mkdirs[m]]_vars

\* after a failed acknowledgment a downloader was launched and exited, and the
\* task has replied with that one launch; the task of another message has
\* replied after a failed create_dir_all, without any launch
C18_Witness ==
    \E m, k \in Delivered :
        /\ tasks[m].pc = "done" /\ ~tasks[m].result.ok
        /\ Len(procs[m]) = 1 /\ procs[m][1].exit # None
        /\ sent[m][1].res = "err"
        /\ tasks[k].pc = "done" /\ mkdirs[k] = << Some(ErrPermission) >>
        /\ procs[k] = << >>

(***************************************************************************)
(* C19: round trip between the two stages of the matcher: a string that    *)
(* the strict check accepts, sent as the whole text of a message, is its   *)
(* own leftmost match, so the message is Valid and the URL handed to the   *)
(* task and to the downloader is the string itself; the strict check       *)
(* accepts that URL again.                                                 *)
(***************************************************************************)
\* per text: does the strict check accept the whole text
StrictAccepts == [text \in MatchTexts |-> is_valid_url(text)]

C19_RoundTrip ==
    \A m \in Delivered :
        StrictAccepts[msgs[m].content] =>
            /\ ValidWith(m, msgs[m].content)
            /\ tasks[m].pc # "none" =>
                  /\ tasks[m].url \in MatchTexts
                  /\ StrictAccepts[tasks[m].url]

\* an accepted string with a query, a fragment and a closing full stop reached
\* the downloader unchanged, next to an accepted string without a path
C19_Witness ==
    \E m, k \in Delivered :
        /\ msgs[m].content = UrlQuery /\ StrictAccepts[UrlQuery]
        /\ Len(procs[m]) = 1 /\ procs[m][1].args[1] = UrlQuery
        /\ msgs[k].content = UrlNoPath /\ StrictAccepts[UrlNoPath]
        /\ tasks[k].pc # "none" /\ tasks[k].url = UrlNoPath

(***************************************************************************)
(* C20: no message event, ready event or download task changes the         *)
(* configuration of the handler (allow-list, channel, output directory,    *)
(* credential path): it is in every reachable state what main built, and   *)
(* the authorization decision for a message is the same whatever events    *)
(* and downloads came before it or run beside it.                          *)
(***************************************************************************)
\* the decision for every author, server and channel
Decisions ==
    [bot \in BotFlags, guild_id \in GuildIds, channel_id \in ChannelIds |->
        Authorized([bot |-> bot, guild_id |-> guild_id, channel_id |-> channel_id])]

C20_ConfigFrame ==
    /\ [](/\ allowed_guilds = Some(<<1>>)
          /\ allowed_channel = Some(5)
          /\ output_dir = DirOut
          /\ cookies_path = Some(CookiesFile)
          /\ \A m \in Delivered :
                (handler[m].route # "denied") <=>
                    AllowReference(msgs[m].bot, msgs[m].guild_id, msgs[m].channel_id,
                                   Some(<<1>>), Some(5)))
    /\ [][config' = config /\ Decisions' = Decisions]_vars

\* a message of server 2 was denied, then a ready event was reconciled with
\* a leave call for server 2, then a message of server 1 was served to the end
C20_Witness ==
    /\ Len(msgs) >= 2 /\ Len(readies) >= 1
    /\ msgs[1].guild_id = Some(2) /\ handler[1].route = "denied"
    /\ readies[1].pc = "returned" /\ Len(leaves[1]) = 1
    /\ msgs[2].guild_id = Some(1) /\ tasks[2].pc = "done"
    /\ allowed_guilds = Some(<<1>>)

=============================================================================
